---------------------------- MODULE Spec2Model ----------------------------
(***************************************************************************)
(* A model of the real-time speech pipeline of roka-project:               *)
(*                                                                         *)
(*   backend/speech_worker.py            Segmentation Engine               *)
(*   backend/services/whisper_worker.py  Audio Window Buffer and           *)
(*                                       Transcription Dispatcher          *)
(*   backend/services/analysis_cache.py  Latest-Result Cache               *)
(*   backend/routers/coach_ws.py         Live Dispatch Loop                *)
(*   backend/services/speech_rate_worker.py  Rate Metrics Engine           *)
(*   backend/services/analysis_listener.py   writer of the cache           *)
(*   backend/routers/audio_stream.py, backend/mqtt_client.py               *)
(*                                       the PCM chunks of a page          *)
(*   audio_state_worker.py               the hold-time variant             *)
(*                                                                         *)
(* Each component has its own next-state relation over the shared state,   *)
(* and a specification of its own (SpecSeg, SpecWindow, SpecWhisper,       *)
(* SpecCache, SpecLoop).                                                   *)
(*                                                                         *)
(* Time is counted in tenths of a second (0.8 s = 8) and arithmetic on it  *)
(* is exact: the rounding of Python's floats is not modelled.              *)
(***************************************************************************)
EXTENDS Integers, Sequences, FiniteSets, TLC

VARIABLES
    \* ---- speech_worker.py
    sessions,       \* sessions: user_id -> session dict (absent until the first sample)
    segments,       \* the messages published on interview/{user}/speech/segment, in order
    samples,        \* history: user -> the (timestamp, rms) samples delivered so far
    \* ---- whisper_worker.py
    user_pcm_buffers, \* user_id -> bytearray, a sequence of bytes
    stream_pos,     \* history: user -> number of bytes of the user's stream accepted so far
    stt,            \* the transcription call in progress, or NoCall
    texts,          \* the messages published on interview/{user}/speech/text, in order
    triggers,       \* history: the runs of transcribe_segment, in order
    api_result,     \* the call of a buffer function that has just returned: arguments, result, effect
    msg_count,      \* history: number of audio/pcm and speech/segment messages handled so far
    \* ---- analysis_cache.py
    latest_analysis, \* _latest_analysis: user_id -> dict (absent until written)
    latest_text,    \* _latest_text: user_id -> dict (absent until written)
    lock,           \* _lock: the thread holding it, or Free
    threads,        \* thread -> its position in a cache operation
    cache_log,      \* history: the cache operations in the order they took effect
    n_cached,       \* history: number of messages analysis_listener has cached
    \* ---- coach_ws.py
    loop,           \* the coach_events coroutine: position and its two local variables
    sent,           \* the messages passed to websocket.send_json, in order
    \* ---- speech_rate_worker.py
    rate_in,        \* history: the speech/text messages speech_rate_worker has handled
    analyses,       \* the messages published on interview/{user}/speech/analysis, in order
    rate_call,      \* a direct call of analyze_text or calc_cps that has just returned
    \* ---- the worker processes
    crashed,        \* the workers whose message handler let an exception out
    n_dropped,      \* history: number of malformed messages delivered so far
    \* ---- the broker between the workers
    seg_delivered,  \* number of speech/segment messages delivered to whisper_worker
    text_cached,    \* number of speech/text messages delivered to analysis_listener
    \* ---- audio_state_worker.py
    last_speech_time, \* last_speech_time: the global of the module
    current_state,  \* current_state: the global of the module
    states,         \* the messages published on interview/{user}/audio/state, in order
    state_in,       \* history: the audio/raw messages audio_state_worker has handled
    \* ---- routers/audio_stream.py
    ws_log          \* history: the chunks received on /audio-stream and their delivery

seg_vars == <<sessions, segments, samples>>
whisper_vars ==
    <<user_pcm_buffers, stream_pos, stt, texts, triggers, api_result, msg_count>>
cache_vars == <<latest_analysis, latest_text, lock, threads, cache_log, n_cached>>
loop_vars == <<loop, sent>>
rate_vars == <<rate_in, analyses, rate_call>>
proc_vars == <<crashed, n_dropped>>
pipe_vars == <<seg_delivered, text_cached>>
state_vars == <<last_speech_time, current_state, states, state_in>>
ext_vars == <<pipe_vars, state_vars, ws_log>>
vars ==
    <<seg_vars, whisper_vars, cache_vars, loop_vars, rate_vars, proc_vars, ext_vars>>

Users == {"u1", "u2"}

\* Python's None, where the other values are numbers.
None == -1

Min(a, b) == IF a <= b THEN a ELSE b
Max(a, b) == IF a >= b THEN a ELSE b

(***************************************************************************)
(* speech_worker.py: the Segmentation Engine                               *)
(***************************************************************************)
RMS_THRESHOLD == 800
MIN_SEGMENT_DURATION == 8
MAX_SEGMENT_DURATION == 100

\* The samples the environment delivers: at most MaxSamples in all, each
\* Deltas after the user's previous one (timestamps never decrease), with an
\* rms below, at or above the threshold.
MaxSamples == 4
Deltas == {0, 4, 104}
RmsValues == {10, 800, 900}

\* speech_worker.py 77-82: the session created for a user's first sample.
NewSession ==
    [state |-> "silent", segment_start |-> None, last_ts |-> None, max_rms |-> 0]

SessionOf(u) == IF u \in DOMAIN sessions THEN sessions[u] ELSE NewSession

\* speech_worker.py 87
is_speaking(rms) == rms >= RMS_THRESHOLD

\* speech_worker.py 112-114: end_ts, start_ts and duration of the segment
\* that a below-threshold sample at `timestamp` closes. `x or timestamp`
\* takes timestamp when x is None and also when x is 0.0.
CloseEndTs(sess, timestamp) ==
    IF sess.last_ts # None THEN sess.last_ts ELSE timestamp
CloseStartTs(sess, timestamp) ==
    IF sess.segment_start = None \/ sess.segment_start = 0
    THEN timestamp ELSE sess.segment_start
CloseDuration(sess, timestamp) ==
    Max(0, CloseEndTs(sess, timestamp) - CloseStartTs(sess, timestamp))

\* SessionAfter with a slip: a sample that continues a segment restarts it.
SessionAfter_Restart(sess, timestamp, rms) ==
    IF is_speaking(rms)
    THEN [state |-> "speaking", segment_start |-> timestamp,
          last_ts |-> timestamp, max_rms |-> rms]
    ELSE IF sess.state = "speaking"
         THEN [state |-> "silent", segment_start |-> None,
               last_ts |-> None, max_rms |-> 0]
         ELSE sess

\* speech_worker.py 91-149: the session after a sample.
SessionAfter(sess, timestamp, rms) ==
    IF is_speaking(rms)
    THEN IF sess.state = "silent"
         THEN [state |-> "speaking", segment_start |-> timestamp,
               last_ts |-> timestamp, max_rms |-> rms]
         ELSE [sess EXCEPT !.last_ts = timestamp,
                           !.max_rms = IF rms > sess.max_rms THEN rms ELSE @]
    ELSE IF sess.state = "speaking"
         THEN [state |-> "silent", segment_start |-> None,
               last_ts |-> None, max_rms |-> 0]
         ELSE sess

\* SegmentsEmitted with a slip: the duration is not clamped.
SegmentsEmitted_NoClamp(user_id, sess, timestamp, rms) ==
    IF ~is_speaking(rms) /\ sess.state = "speaking"
       /\ ~(CloseDuration(sess, timestamp) < MIN_SEGMENT_DURATION)
    THEN <<[user_id |-> user_id, start_ts |-> CloseStartTs(sess, timestamp),
            end_ts |-> CloseStartTs(sess, timestamp) + CloseDuration(sess, timestamp),
            duration |-> CloseDuration(sess, timestamp),
            max_rms |-> sess.max_rms]>>
    ELSE <<>>

\* speech_worker.py 109-136: what a sample publishes, a sequence of zero or
\* one segment.
SegmentsEmitted(user_id, sess, timestamp, rms) ==
    IF ~is_speaking(rms) /\ sess.state = "speaking"
       /\ ~(CloseDuration(sess, timestamp) < MIN_SEGMENT_DURATION)
    THEN LET duration == Min(CloseDuration(sess, timestamp), MAX_SEGMENT_DURATION)
             start_ts == CloseStartTs(sess, timestamp)
         IN  <<[user_id |-> user_id, start_ts |-> start_ts,
                end_ts |-> start_ts + duration, duration |-> duration,
                max_rms |-> sess.max_rms]>>
    ELSE <<>>

LastTs(u) == IF samples[u] = <<>> THEN 0 ELSE samples[u][Len(samples[u])].ts

TotalSamples == Len(samples["u1"]) + Len(samples["u2"])

\* speech_worker.py 54-149: on_message for a well-formed audio/raw message.
on_message_raw(user_id, timestamp, rms) ==
    /\ sessions' = [u \in DOMAIN sessions \cup {user_id} |->
                      IF u = user_id
                      THEN SessionAfter(SessionOf(user_id), timestamp, rms)
                      ELSE sessions[u]]
    /\ segments' = segments \o SegmentsEmitted(user_id, SessionOf(user_id), timestamp, rms)
    /\ samples' = [samples EXCEPT ![user_id] = Append(@, [ts |-> timestamp, rms |-> rms])]

RawSample ==
    /\ TotalSamples < MaxSamples
    /\ \E u \in Users, d \in Deltas, r \in RmsValues : on_message_raw(u, LastTs(u) + d, r)
    /\ UNCHANGED <<whisper_vars, cache_vars, loop_vars, rate_vars, proc_vars, ext_vars>>

\* The audio/raw messages of one page: one user, and timestamps that increase
\* strictly from the first one, which may be 0.
StreamUser == "u1"
StreamSample(limit) ==
    /\ TotalSamples < limit
    /\ \E d \in Deltas, r \in RmsValues :
          /\ d > 0 \/ samples[StreamUser] = <<>>
          /\ on_message_raw(StreamUser, LastTs(StreamUser) + d, r)
    /\ UNCHANGED <<whisper_vars, cache_vars, loop_vars, rate_vars, proc_vars, ext_vars>>


(***************************************************************************)
(* whisper_worker.py: the Audio Window Buffer                              *)
(*                                                                         *)
(* A byte is [id, v]: v is its value and id its position in the user's     *)
(* incoming stream, which tells one byte from another of the same value.   *)
(* A user with no buffer yet and a user with an empty buffer are both the  *)
(* empty sequence: the code reads buffers only through .get() and          *)
(* `if not buf`, which do not tell them apart.                             *)
(***************************************************************************)
\* whisper_worker.py 54: 16000 in the source. The model counts SAMPLE_RATE
\* samples to the second and derives every size from it as the source does.
SAMPLE_RATE == 2
MAX_SAMPLES == SAMPLE_RATE * 30
SAMPLE_WIDTH == 2
MAX_BYTES == MAX_SAMPLES * SAMPLE_WIDTH

\* int(num / den) of Python: truncation towards zero.
PyInt(num, den) == IF num >= 0 THEN num \div den ELSE 0 - ((0 - num) \div den)

\* buf[:n] for 0 <= n <= len(buf)
Prefix(buf, n) == SubSeq(buf, 1, n)

\* buf[-k:] of Python: the last k for k > 0, all of buf for k = 0 (-0 is 0),
\* and buf without its first -k for k < 0.
PySuffix(buf, k) ==
    IF k > 0
    THEN IF k >= Len(buf) THEN buf ELSE SubSeq(buf, Len(buf) - k + 1, Len(buf))
    ELSE IF 0 - k >= Len(buf) THEN <<>> ELSE SubSeq(buf, 1 - k, Len(buf))

\* whisper_worker.py 83-85 and 131-133: cut to a whole number of samples.
EvenTruncate(pcm_bytes) ==
    IF Len(pcm_bytes) % SAMPLE_WIDTH # 0
    THEN Prefix(pcm_bytes, Len(pcm_bytes) - (Len(pcm_bytes) % SAMPLE_WIDTH))
    ELSE pcm_bytes

\* append_pcm with a slip: on overflow the newest bytes are dropped.
append_pcm_KeepOldest(buf, pcm_bytes) ==
    IF Len(pcm_bytes) = 0 THEN buf
    ELSE LET extended == buf \o EvenTruncate(pcm_bytes)
         IN  IF Len(extended) > MAX_BYTES THEN Prefix(extended, MAX_BYTES)
             ELSE extended

\* append_pcm with a slip: the cut to MAX_BYTES is missing.
append_pcm_Uncapped(buf, pcm_bytes) ==
    IF Len(pcm_bytes) = 0 THEN buf ELSE buf \o EvenTruncate(pcm_bytes)

\* whisper_worker.py 77-95: the buffer after append_pcm(user_id, pcm_bytes).
append_pcm(buf, pcm_bytes) ==
    IF Len(pcm_bytes) = 0 THEN buf
    ELSE LET extended == buf \o EvenTruncate(pcm_bytes)
         IN  IF Len(extended) > MAX_BYTES THEN PySuffix(extended, MAX_BYTES)
             ELSE extended

\* trim_buffer with a slip: the oldest bytes are kept, not the newest.
trim_buffer_Head(buf, keep_sec) ==
    IF Len(buf) = 0 THEN buf
    ELSE LET keep_samples == PyInt(SAMPLE_RATE * Max(0, keep_sec), 10)
             keep_bytes == keep_samples * SAMPLE_WIDTH
         IN  IF keep_bytes <= 0 THEN <<>>
             ELSE IF Len(buf) > keep_bytes THEN Prefix(buf, keep_bytes)
             ELSE buf

\* trim_buffer with a slip: keep_bytes counts the sample width twice.
trim_buffer_Wide(buf, keep_sec) ==
    IF Len(buf) = 0 THEN buf
    ELSE LET keep_samples == PyInt(SAMPLE_RATE * Max(0, keep_sec), 10)
             keep_bytes == keep_samples * SAMPLE_WIDTH * SAMPLE_WIDTH
         IN  IF keep_bytes <= 0 THEN <<>>
             ELSE IF Len(buf) > keep_bytes THEN PySuffix(buf, keep_bytes)
             ELSE buf

\* whisper_worker.py 98-110: the buffer after trim_buffer(user_id, keep_sec),
\* keep_sec given in tenths of a second.
trim_buffer(buf, keep_sec) ==
    IF Len(buf) = 0 THEN buf
    ELSE LET keep_samples == PyInt(SAMPLE_RATE * Max(0, keep_sec), 10)
             keep_bytes == keep_samples * SAMPLE_WIDTH
         IN  IF keep_bytes <= 0 THEN <<>>
             ELSE IF Len(buf) > keep_bytes THEN PySuffix(buf, keep_bytes)
             ELSE buf

\* whisper_worker.py 118-136: the bytes get_recent_pcm converts,
\* max_duration_sec given in tenths of a second.
RecentBytes(buf, max_duration_sec) ==
    IF Len(buf) = 0 THEN <<>>
    ELSE LET max_samples == PyInt(SAMPLE_RATE * max_duration_sec, 10)
             max_bytes == max_samples * SAMPLE_WIDTH
         IN  EvenTruncate(IF Len(buf) > max_bytes THEN PySuffix(buf, max_bytes)
                          ELSE buf)

\* np.frombuffer(dtype=int16): little-endian, two's complement.
Int16(lo, hi) == IF lo + 256 * hi >= 32768 THEN lo + 256 * hi - 65536 ELSE lo + 256 * hi

\* whisper_worker.py 139-142: the waveform of a whole number of samples. A
\* sample x stands for the float32 x / 32768.0.
ToAudio(pcm_bytes) ==
    [k \in 1..(Len(pcm_bytes) \div SAMPLE_WIDTH) |->
        Int16(pcm_bytes[2 * k - 1].v, pcm_bytes[2 * k].v)]

\* whisper_worker.py 113-142
get_recent_pcm(buf, max_duration_sec) == ToAudio(RecentBytes(buf, max_duration_sec))

RECURSIVE SumSq256(_)
SumSq256(audio) ==
    IF audio = <<>> THEN 0
    ELSE (audio[1] \div 256) * (audio[1] \div 256) + SumSq256(Tail(audio))

\* whisper_worker.py 60 and 145-148, 163: rms(audio) < MIN_AUDIO_RMS with
\* MIN_AUDIO_RMS = 0.01, that is sum(x^2) / (n * 32768^2) < 1 / 10000. The
\* samples of the model are multiples of 256, for which this is
\* 625 * sum((x / 256)^2) < 1024 * n.
RmsBelowMin(audio) ==
    IF Len(audio) = 0 THEN TRUE
    ELSE 625 * SumSq256(audio) < 1024 * Len(audio)

(***************************************************************************)
(* whisper_worker.py: the Transcription Dispatcher                         *)
(***************************************************************************)
\* The client's chunks: a number of bytes, all samples silent (0) or all
\* loud (512, that is 512 / 32768 = 0.0156).
BytesPerSec == SAMPLE_RATE * SAMPLE_WIDTH
Chunks == { <<3, TRUE>>, <<11 * BytesPerSec, TRUE>>, <<11 * BytesPerSec, FALSE>>,
            <<MAX_BYTES + 2, TRUE>> }

Chunk(from, n, loud) ==
    [i \in 1..n |-> [id |-> from + i, v |-> IF loud /\ i % 2 = 0 THEN 2 ELSE 0]]

\* What model.transcribe returns: the texts of its segments, each a sequence
\* of characters; or it raises.
SttTexts == { <<>>, << <<" ">> >>, << <<" ", "a">>, <<"b", " ">> >> }
SttOutcomes ==
    {[raises |-> FALSE, texts |-> t] : t \in SttTexts} \cup {[raises |-> TRUE, texts |-> <<>>]}

RECURSIVE Join(_)
Join(parts) == IF parts = <<>> THEN <<>> ELSE parts[1] \o Join(Tail(parts))

IsSpace(ch) == ch = " "

\* str.strip()
RECURSIVE LStrip(_)
LStrip(s) == IF s # <<>> /\ IsSpace(s[1]) THEN LStrip(Tail(s)) ELSE s
RECURSIVE RStrip(_)
RStrip(s) ==
    IF s # <<>> /\ IsSpace(s[Len(s)]) THEN RStrip(Prefix(s, Len(s) - 1)) ELSE s
Strip(s) == RStrip(LStrip(s))

\* The segment events delivered on speech/segment: start_ts, end_ts, duration.
SegMetas == { [start_ts |-> 4, end_ts |-> 12, duration |-> 8],
              [start_ts |-> 20, end_ts |-> 120, duration |-> 100] }
\* The messages whisper_worker handles in a run, and the operations of a run
\* of direct calls.
MaxMessages == 4
MaxWindowOps == 2

NoCall == [active |-> FALSE, user_id |-> "", seg |-> <<>>, ids |-> <<>>]

NoResult ==
    [called |-> FALSE, user_id |-> "", max_duration_sec |-> 0, audio |-> <<>>,
     before |-> [u \in Users |-> <<>>], after |-> [u \in Users |-> <<>>],
     fn |-> "", pcm_bytes |-> <<>>, keep_sec |-> 0]

Ids(pcm_bytes) == [i \in 1..Len(pcm_bytes) |-> pcm_bytes[i].id]

\* whisper_worker.py 228-230: on_message for an audio/pcm message with the
\* payload pcm_bytes.
OnPcmBytes(user_id, pcm_bytes) ==
    /\ ~stt.active
    /\ user_pcm_buffers' =
         [user_pcm_buffers EXCEPT ![user_id] = append_pcm(@, pcm_bytes)]
    /\ stream_pos' = [stream_pos EXCEPT ![user_id] = @ + Len(pcm_bytes)]
    /\ msg_count' = msg_count + 1
    /\ api_result' = [NoResult EXCEPT !.fn = "append_pcm", !.user_id = user_id,
                                      !.pcm_bytes = pcm_bytes]
    /\ UNCHANGED <<stt, texts, triggers>>

OnPcm(user_id, n, loud) == OnPcmBytes(user_id, Chunk(stream_pos[user_id], n, loud))

\* CallsStt with a slip: the noise gate is missing.
CallsStt_NoGate(buf) == Len(get_recent_pcm(buf, 100)) # 0

\* whisper_worker.py 156-169: whether transcribe_segment goes on to call
\* model.transcribe, given the user's buffer.
CallsStt(buf) ==
    /\ Len(get_recent_pcm(buf, 100)) # 0
    /\ ~RmsBelowMin(get_recent_pcm(buf, 100))

\* whisper_worker.py 156-169: the user's buffer when transcribe_segment
\* returns early or reaches model.transcribe.
BufferAfterGate(buf) ==
    IF Len(get_recent_pcm(buf, 100)) = 0 THEN buf
    ELSE IF RmsBelowMin(get_recent_pcm(buf, 100)) THEN trim_buffer(buf, 5)
    ELSE buf

\* whisper_worker.py 234-258 and 156-175: on_message for a speech/segment
\* message, up to the call of model.transcribe. The history keeps the segment
\* event and the ids of the bytes of the snapshot.
OnSegment(user_id, seg) ==
    /\ ~stt.active
    /\ user_pcm_buffers' =
         [user_pcm_buffers EXCEPT ![user_id] = BufferAfterGate(@)]
    /\ stt' = IF CallsStt(user_pcm_buffers[user_id])
              THEN [active |-> TRUE, user_id |-> user_id, seg |-> seg,
                    ids |-> Ids(RecentBytes(user_pcm_buffers[user_id], 100))]
              ELSE NoCall
    /\ triggers' = Append(triggers,
                     [user_id |-> user_id, seg |-> seg,
                      ids |-> Ids(RecentBytes(user_pcm_buffers[user_id], 100)),
                      called |-> CallsStt(user_pcm_buffers[user_id]),
                      consumed |-> FALSE])
    /\ msg_count' = msg_count + 1
    /\ api_result' = NoResult
    /\ UNCHANGED <<stream_pos, texts>>

\* TextEvent with a slip: the duration is taken from end_ts.
TextEvent_EndAsDuration(user_id, seg, outcome) ==
    [user_id |-> user_id, start_ts |-> seg.start_ts, end_ts |-> seg.end_ts,
     duration |-> seg.end_ts, text |-> Strip(Join(outcome.texts))]

\* whisper_worker.py 182-201: the text event built from what model.transcribe
\* returned.
TextEvent(user_id, seg, outcome) ==
    [user_id |-> user_id, start_ts |-> seg.start_ts, end_ts |-> seg.end_ts,
     duration |-> seg.duration, text |-> Strip(Join(outcome.texts))]

\* whisper_worker.py 186-201: the text events published for an outcome.
TextsPublished(user_id, seg, outcome) == <<TextEvent(user_id, seg, outcome)>>

\* whisper_worker.py 175-203 and 263-264: model.transcribe returns or raises,
\* and the handler runs to its end.
OnSttReturn(outcome) ==
    /\ stt.active
    /\ stt' = NoCall
    /\ IF outcome.raises
       THEN UNCHANGED <<user_pcm_buffers, texts, triggers>>
       ELSE /\ texts' = texts \o TextsPublished(stt.user_id, stt.seg, outcome)
            /\ user_pcm_buffers' =
                 [user_pcm_buffers EXCEPT ![stt.user_id] = trim_buffer(@, 10)]
            /\ triggers' = [triggers EXCEPT ![Len(triggers)].consumed = TRUE]
    /\ api_result' = NoResult
    /\ UNCHANGED <<stream_pos, msg_count>>


PcmChunk(limit) ==
    /\ msg_count < limit
    /\ \E u \in Users, c \in Chunks : OnPcm(u, c[1], c[2])
    /\ UNCHANGED <<seg_vars, cache_vars, loop_vars, rate_vars, proc_vars, ext_vars>>

\* An audio/pcm message with an empty payload (append_pcm returns at once).
EmptyChunk ==
    /\ \E u \in Users : user_pcm_buffers' =
            [user_pcm_buffers EXCEPT ![u] = append_pcm(@, Chunk(stream_pos[u], 0, FALSE))]
    /\ ~stt.active
    /\ api_result' = NoResult
    /\ UNCHANGED <<stream_pos, stt, texts, triggers, msg_count>>
    /\ UNCHANGED <<seg_vars, cache_vars, loop_vars, rate_vars, proc_vars, ext_vars>>

SegmentEvent(limit) ==
    /\ msg_count < limit
    /\ \E u \in Users, seg \in SegMetas : OnSegment(u, seg)
    /\ UNCHANGED <<seg_vars, cache_vars, loop_vars, rate_vars, proc_vars, ext_vars>>

\* whisper_worker.py 234-246: the broker delivers the next speech/segment
\* message of speech_worker; the handler reads start_ts, end_ts and duration.
SegmentDelivered ==
    /\ seg_delivered < Len(segments)
    /\ OnSegment(segments[seg_delivered + 1].user_id,
                 [start_ts |-> segments[seg_delivered + 1].start_ts,
                  end_ts |-> segments[seg_delivered + 1].end_ts,
                  duration |-> segments[seg_delivered + 1].duration])
    /\ seg_delivered' = seg_delivered + 1
    /\ UNCHANGED <<text_cached, state_vars, ws_log>>
    /\ UNCHANGED <<seg_vars, cache_vars, loop_vars, rate_vars, proc_vars>>

SttReturn ==
    /\ \E outcome \in SttOutcomes : OnSttReturn(outcome)
    /\ UNCHANGED <<seg_vars, cache_vars, loop_vars, rate_vars, proc_vars, ext_vars>>

\* Direct calls of the buffer's functions, with any argument (tenths of a
\* second).
KeepSecs == {-10, 0, 5, 10}
MaxDurations == {0, 5, 100}

ApiTrim ==
    /\ ~stt.active
    /\ \E u \in Users, keep_sec \in KeepSecs :
          /\ user_pcm_buffers' = [user_pcm_buffers EXCEPT ![u] = trim_buffer(@, keep_sec)]
          /\ api_result' = [NoResult EXCEPT !.fn = "trim_buffer", !.user_id = u,
                                            !.keep_sec = keep_sec]
    /\ UNCHANGED <<stream_pos, stt, texts, triggers, msg_count>>
    /\ UNCHANGED <<seg_vars, cache_vars, loop_vars, rate_vars, proc_vars, ext_vars>>

\* whisper_worker.py 113-142: get_recent_pcm assigns to no buffer.
ApiGetRecent ==
    /\ ~stt.active
    /\ UNCHANGED user_pcm_buffers
    /\ \E u \in Users, d \in MaxDurations :
          api_result' = [called |-> TRUE, user_id |-> u, max_duration_sec |-> d,
                         audio |-> get_recent_pcm(user_pcm_buffers[u], d),
                         before |-> user_pcm_buffers, after |-> user_pcm_buffers',
                         fn |-> "get_recent_pcm", pcm_bytes |-> <<>>, keep_sec |-> 0]
    /\ UNCHANGED <<stream_pos, stt, texts, triggers, msg_count>>
    /\ UNCHANGED <<seg_vars, cache_vars, loop_vars, rate_vars, proc_vars, ext_vars>>

(***************************************************************************)
(* analysis_cache.py: the Latest-Result Cache                              *)
(***************************************************************************)
\* The dicts written to the cache: the keys coach_events reads, a key that is
\* missing or null being None.
CacheDicts ==
    { [end_ts |-> 1, timestamp |-> None, text |-> "a"],
      [end_ts |-> 2, timestamp |-> None, text |-> "b"],
      [end_ts |-> None, timestamp |-> 2, text |-> "c"],
      [end_ts |-> 0, timestamp |-> 1, text |-> "d"],
      [end_ts |-> None, timestamp |-> None, text |-> "e"] }

\* The dicts the callers of SpecCache write.
CacheArgs == {d \in CacheDicts : d.end_ts \in {1, 2}}

\* What dict.get returns for a user never written.
NoDict == [end_ts |-> None, timestamp |-> None, text |-> "None"]

\* analysis_cache.py 19, 28: _latest_X[user_id] = value
dict_set(map, user_id, value) ==
    [u \in DOMAIN map \cup {user_id} |-> IF u = user_id THEN value ELSE map[u]]

\* dict_get with a slip: the entry of whichever user was written.
dict_get_AnyUser(map, user_id) ==
    IF DOMAIN map = {} THEN NoDict ELSE map[CHOOSE u \in DOMAIN map : TRUE]

\* analysis_cache.py 36, 44: _latest_X.get(user_id)
dict_get(map, user_id) == IF user_id \in DOMAIN map THEN map[user_id] ELSE NoDict

Threads == {"t1", "t2"}
Free == "free"
CacheOps == {"update_analysis", "update_text", "get_latest_analysis", "get_latest_text"}
MaxCacheOps == 3

Idle == [pc |-> "idle", op |-> "", user_id |-> "", arg |-> NoDict, ret |-> NoDict, at |-> 0]

\* A thread calls one of the four functions and reaches `with _lock:`.
CacheCall(t) ==
    /\ threads[t].pc \in {"idle", "returned"}
    /\ Len(cache_log) + Cardinality({x \in Threads : threads[x].pc \in {"acquire", "locked"}})
          < MaxCacheOps
    /\ \E op \in CacheOps, u \in Users, d \in CacheArgs :
          threads' = [threads EXCEPT ![t] =
                        [pc |-> "acquire", op |-> op, user_id |-> u,
                         arg |-> IF op \in {"update_analysis", "update_text"} THEN d ELSE NoDict,
                         ret |-> NoDict, at |-> 0]]
    /\ UNCHANGED <<latest_analysis, latest_text, lock, cache_log, n_cached>>
    /\ UNCHANGED <<seg_vars, whisper_vars, loop_vars, rate_vars, proc_vars, ext_vars>>

\* `with _lock:` entered: Lock.acquire blocks while another thread holds it.
CacheAcquire(t) ==
    /\ threads[t].pc = "acquire"
    /\ lock = Free
    /\ lock' = t
    /\ threads' = [threads EXCEPT ![t].pc = "locked"]
    /\ UNCHANGED <<latest_analysis, latest_text, cache_log, n_cached>>
    /\ UNCHANGED <<seg_vars, whisper_vars, loop_vars, rate_vars, proc_vars, ext_vars>>

\* AnalysisAfter with a slip: update_text writes _latest_analysis as well.
AnalysisAfter_Both(op, user_id, arg) ==
    IF op \in {"update_analysis", "update_text"}
    THEN dict_set(latest_analysis, user_id, arg)
    ELSE latest_analysis

\* analysis_cache.py 19, 28, 36, 44: the statement inside `with _lock:`.
AnalysisAfter(op, user_id, arg) ==
    IF op = "update_analysis" THEN dict_set(latest_analysis, user_id, arg)
    ELSE latest_analysis
TextAfter(op, user_id, arg) ==
    IF op = "update_text" THEN dict_set(latest_text, user_id, arg)
    ELSE latest_text
Returned(op, user_id) ==
    IF op = "get_latest_analysis" THEN dict_get(latest_analysis, user_id)
    ELSE IF op = "get_latest_text" THEN dict_get(latest_text, user_id)
    ELSE NoDict

CacheAccess(t) ==
    /\ threads[t].pc = "locked"
    /\ latest_analysis' = AnalysisAfter(threads[t].op, threads[t].user_id, threads[t].arg)
    /\ latest_text' = TextAfter(threads[t].op, threads[t].user_id, threads[t].arg)
    /\ cache_log' = Append(cache_log, [op |-> threads[t].op, user_id |-> threads[t].user_id,
                                        arg |-> threads[t].arg])
    /\ threads' = [threads EXCEPT ![t].pc = "release",
                                  ![t].ret = Returned(threads[t].op, threads[t].user_id),
                                  ![t].at = Len(cache_log)]
    /\ UNCHANGED <<lock, n_cached>>
    /\ UNCHANGED <<seg_vars, whisper_vars, loop_vars, rate_vars, proc_vars, ext_vars>>

\* CacheRelease with a slip: the function returns with the lock still held.
CacheRelease_KeepsLock(t) ==
    /\ threads[t].pc = "release"
    /\ threads' = [threads EXCEPT ![t].pc = "returned"]
    /\ UNCHANGED <<latest_analysis, latest_text, lock, cache_log, n_cached>>
    /\ UNCHANGED <<seg_vars, whisper_vars, loop_vars, rate_vars, proc_vars, ext_vars>>

\* `with _lock:` left: the lock is released and the function returns.
CacheRelease(t) ==
    /\ threads[t].pc = "release"
    /\ lock' = Free
    /\ threads' = [threads EXCEPT ![t].pc = "returned"]
    /\ UNCHANGED <<latest_analysis, latest_text, cache_log, n_cached>>
    /\ UNCHANGED <<seg_vars, whisper_vars, loop_vars, rate_vars, proc_vars, ext_vars>>

Call == \E t \in Threads : CacheCall(t)
Acquire == \E t \in Threads : CacheAcquire(t)
Access == \E t \in Threads : CacheAccess(t)
Release == \E t \in Threads : CacheRelease(t)

(***************************************************************************)
(* analysis_listener.py and coach_ws.py: the Live Dispatch Loop            *)
(*                                                                         *)
(* The listener's thread and the loop's coroutine each reach the cache     *)
(* through one call of analysis_cache, which holds the lock for its single *)
(* statement: here each call is one step.                                  *)
(***************************************************************************)
MaxCached == 3

\* analysis_listener.py 44-77: _on_message for a well-formed speech/analysis
\* or speech/text message of user_id with payload data.
ListenerOnMessage(user_id, subtopic, data) ==
    /\ lock = Free
    /\ latest_analysis' = IF subtopic = "analysis"
                          THEN dict_set(latest_analysis, user_id, data)
                          ELSE latest_analysis
    /\ latest_text' = IF subtopic = "text"
                      THEN dict_set(latest_text, user_id, data)
                      ELSE latest_text
    /\ n_cached' = n_cached + 1
    /\ UNCHANGED <<lock, threads, cache_log>>

Cached ==
    /\ n_cached < MaxCached
    /\ \E u \in Users, subtopic \in {"analysis", "text"}, d \in CacheDicts :
          ListenerOnMessage(u, subtopic, d)
    /\ UNCHANGED <<seg_vars, whisper_vars, loop_vars, rate_vars, proc_vars, ext_vars>>

\* The user whose page is connected to /coach-events/{user_id}.
LoopUser == "u1"

\* dict.get(key) where the values are numbers, and where they are strings.
Get(d, key) == IF key \in DOMAIN d THEN d[key] ELSE None
GetStr(d, key) == IF key \in DOMAIN d THEN d[key] ELSE "None"

\* `x or y` of Python on strings and None: None and "" are false.
OrStr(x, y) == IF x # "None" /\ x # "" THEN x ELSE y

\* `x or y` of Python on numbers and None: None and 0.0 are false.
Truthy(x) == x # None /\ x # 0
Or(x, y) == IF Truthy(x) THEN x ELSE y

\* coach_ws.py 37, 55: float(d.get("end_ts") or d.get("timestamp") or 0.0)
TsOf(d) == Or(Or(Get(d, "end_ts"), Get(d, "timestamp")), 0)

\* coach_ws.py 35, 54: `if analysis:`; a dict is false when None or empty.
\* A dict none of whose keys is set stands for both.
HasResult(d) == d # NoDict

\* IsNew with a slip: >= for >.
IsNew_NotStrict(ts, last_ts) == ts >= last_ts

\* coach_ws.py 38, 56: the test that lets a result through.
IsNew(ts, last_ts) == ts > last_ts

\* coach_ws.py 41-49, 58-62: the message sent. ts is not part of the message:
\* it records the timestamp the message was forwarded for.
Message(type, d) ==
    IF type = "speech"
    THEN [type |-> type,
          wpm |-> Get(d, "words_per_min"),
          chars_per_sec |-> Get(d, "chars_per_sec"),
          label |-> OrStr(GetStr(d, "speed_label"), GetStr(d, "level")),
          duration |-> Get(d, "duration"),
          text |-> d.text, ts |-> TsOf(d)]
    ELSE [type |-> type, text |-> d.text, ts |-> TsOf(d)]

\* coach_ws.py 31-49: the sleep ends; the analysis part of an iteration.
LoopAnalysis ==
    /\ loop.pc = "analysis"
    /\ LET analysis == dict_get(latest_analysis, loop.user_id)
       IN  IF HasResult(analysis) /\ IsNew(TsOf(analysis), loop.last_analysis_ts)
           THEN IF loop.connected
                THEN /\ sent' = Append(sent, Message("speech", analysis))
                     /\ loop' = [loop EXCEPT !.last_analysis_ts = TsOf(analysis),
                                             !.pc = "text"]
                ELSE \* send_json raises: the loop is left
                     /\ loop' = [loop EXCEPT !.last_analysis_ts = TsOf(analysis),
                                             !.pc = "closed"]
                     /\ UNCHANGED sent
           ELSE /\ loop' = [loop EXCEPT !.pc = "text"]
                /\ UNCHANGED sent
    /\ UNCHANGED <<seg_vars, whisper_vars, cache_vars, rate_vars, proc_vars, ext_vars>>

\* coach_ws.py 53-62: the text part of an iteration, then the next sleep.
LoopText ==
    /\ loop.pc = "text"
    /\ LET text_data == dict_get(latest_text, loop.user_id)
       IN  IF HasResult(text_data) /\ IsNew(TsOf(text_data), loop.last_text_ts)
           THEN IF loop.connected
                THEN /\ sent' = Append(sent, Message("transcript", text_data))
                     /\ loop' = [loop EXCEPT !.last_text_ts = TsOf(text_data),
                                             !.pc = "analysis"]
                ELSE /\ loop' = [loop EXCEPT !.last_text_ts = TsOf(text_data),
                                             !.pc = "closed"]
                     /\ UNCHANGED sent
           ELSE /\ loop' = [loop EXCEPT !.pc = "analysis"]
                /\ UNCHANGED sent
    /\ UNCHANGED <<seg_vars, whisper_vars, cache_vars, rate_vars, proc_vars, ext_vars>>

\* The consumer closes its end of the WebSocket.
Disconnect ==
    /\ loop.connected
    /\ loop.pc # "closed"
    /\ loop' = [loop EXCEPT !.connected = FALSE]
    /\ UNCHANGED sent
    /\ UNCHANGED <<seg_vars, whisper_vars, cache_vars, rate_vars, proc_vars, ext_vars>>

(***************************************************************************)
(* speech_rate_worker.py and speech_rate.py: the Rate Metrics Engine       *)
(*                                                                         *)
(* A text is a sequence of characters. A rate is counted in thousandths    *)
(* per second: with the duration in tenths of a second, count / duration   *)
(* is count * 10000 / duration. The durations of the model (1.0 s, 0.8 s,  *)
(* 1000 s and their negatives) divide count * 10000, so the quotient is    *)
(* exact.                                                                  *)
(***************************************************************************)
\* Python's `/`: it raises ZeroDivisionError for a zero divisor.
DivisionRaises(count, duration) == duration = 0
Quotient(count, duration) ==
    IF duration > 0 THEN (count * 10000) \div duration
    ELSE -((count * 10000) \div (-duration))

\* speech_rate_worker.py 38-50
classify_speed(chars_per_sec) ==
    IF chars_per_sec <= 3000 THEN "slow"
    ELSE IF chars_per_sec <= 7000 THEN "normal"
    ELSE "fast"

\* speech_rate_worker.py 67-68: the characters that are not whitespace.
NoSpace(text) == SelectSeq(text, LAMBDA ch : ~IsSpace(ch))

\* speech_rate_worker.py 64, 71: len(kiwi.tokenize(text)). The tokenizer is
\* outside the repository; it stands here as one token per word.
RECURSIVE NumTokens(_)
NumTokens(text) ==
    IF text = <<>> THEN 0
    ELSE IF IsSpace(text[1]) THEN NumTokens(Tail(text))
    ELSE IF Len(text) > 1 /\ ~IsSpace(text[2]) THEN NumTokens(Tail(text))
    ELSE 1 + NumTokens(Tail(text))

\* What analyze_text returns for a blank text, and its raising.
NoAnalysis == [none |-> TRUE]
ZeroDivisionError == [raises |-> TRUE]

\* speech_rate_worker.py 73-75: the duration analyze_text divides by.
FlooredDuration(duration) == IF duration <= 1 THEN 10 ELSE duration

\* speech_rate_worker.py 53-104. The per-sentence chunks of the result are
\* left out: nothing reads them.
analyze_text(text, duration) ==
    IF Strip(text) = <<>> THEN NoAnalysis
    ELSE IF DivisionRaises(Len(NoSpace(Strip(text))), FlooredDuration(duration))
    THEN ZeroDivisionError
    ELSE [text |-> Strip(text),
          duration |-> FlooredDuration(duration),
          num_chars |-> Len(NoSpace(Strip(text))),
          num_tokens |-> NumTokens(Strip(text)),
          chars_per_sec |->
              Quotient(Len(NoSpace(Strip(text))), FlooredDuration(duration)),
          tokens_per_sec |->
              Quotient(NumTokens(Strip(text)), FlooredDuration(duration)),
          speed_level |->
              classify_speed(Quotient(Len(NoSpace(Strip(text))),
                                      FlooredDuration(duration)))]

\* speech_rate.py 1-6. str.replace(" ", "") removes the spaces.
calc_cps(text, duration_sec) ==
    IF duration_sec = 0
    THEN [raises |-> FALSE, cps |-> 0, char_count |-> Len(NoSpace(text))]
    ELSE IF DivisionRaises(Len(NoSpace(text)), duration_sec)
    THEN [raises |-> TRUE, cps |-> 0, char_count |-> Len(NoSpace(text))]
    ELSE [raises |-> FALSE, cps |-> Quotient(Len(NoSpace(text)), duration_sec),
          char_count |-> Len(NoSpace(text))]

\* The speech/text messages delivered to speech_rate_worker: user_id, text,
\* start_ts and end_ts, the timestamps None when missing.
RateTexts == { <<>>, <<" ">>, <<" ", "a", " ", "b">> }
RateTimes == { <<4, 12>>, <<0, 10000>>, <<12, 12>>, <<None, None>> }
TextEvents ==
    { [user_id |-> u, text |-> t, start_ts |-> ts[1], end_ts |-> ts[2]] :
        u \in Users, t \in RateTexts, ts \in RateTimes }
\* The messages speech_rate_worker handles in a run, alone and in front of
\* the listener and a dispatch loop.
MaxTexts == 2
MaxPipeTexts == 2

\* No direct call has just returned.
NoRateCall == [fn |-> "", text |-> <<>>, duration |-> 0, result |-> NoAnalysis]

\* speech_rate_worker.py 125-134
EventDuration(data) ==
    IF data.start_ts # None /\ data.end_ts # None
    THEN Max(0, data.end_ts - data.start_ts)
    ELSE 0

\* AnalysesPublished with a slip: the result is published even when
\* analyze_text returned None.
AnalysesPublished_NoSkip(data) ==
    << [topic_user |-> data.user_id,
        payload |-> [user_id |-> data.user_id, start_ts |-> data.start_ts,
                     end_ts |-> data.end_ts]
                    @@ analyze_text(Strip(data.text), EventDuration(data))] >>

\* speech_rate_worker.py 138-152: the messages published for a text event,
\* each with the user of its topic.
AnalysesPublished(data) ==
    IF analyze_text(Strip(data.text), EventDuration(data)) \in {NoAnalysis, ZeroDivisionError}
    THEN <<>>
    ELSE << [topic_user |-> data.user_id,
             payload |-> [user_id |-> data.user_id, start_ts |-> data.start_ts,
                          end_ts |-> data.end_ts]
                         @@ analyze_text(Strip(data.text), EventDuration(data))] >>

\* on_message_text with a slip: the analysis is put before the earlier ones.
on_message_text_Reordered(data) ==
    /\ rate_in' = Append(rate_in, data)
    /\ analyses' = AnalysesPublished(data) \o analyses

\* speech_rate_worker.py 116-159: on_message for a well-formed speech/text
\* message.
on_message_text(data) ==
    /\ rate_in' = Append(rate_in, data)
    /\ analyses' = analyses \o AnalysesPublished(data)

RateText(limit) ==
    /\ Len(rate_in) < limit
    /\ \E data \in TextEvents : on_message_text(data)
    /\ rate_call' = NoRateCall
    /\ UNCHANGED <<seg_vars, whisper_vars, cache_vars, loop_vars, proc_vars, ext_vars>>

\* Direct calls of the two rate functions, with any duration (tenths of a
\* second).
RateDurations == {-10, 0, 1, 8, 10000}

CallAnalyzeText ==
    /\ \E text \in RateTexts, duration \in RateDurations :
          rate_call' = [fn |-> "analyze_text", text |-> text, duration |-> duration,
                        result |-> analyze_text(text, duration)]
    /\ UNCHANGED <<rate_in, analyses>>
    /\ UNCHANGED <<seg_vars, whisper_vars, cache_vars, loop_vars, proc_vars, ext_vars>>

CallCalcCps ==
    /\ \E text \in RateTexts, duration \in RateDurations :
          rate_call' = [fn |-> "calc_cps", text |-> text, duration |-> duration,
                        result |-> calc_cps(text, duration)]
    /\ UNCHANGED <<rate_in, analyses>>
    /\ UNCHANGED <<seg_vars, whisper_vars, cache_vars, loop_vars, proc_vars, ext_vars>>

\* analysis_listener.py 44-64: the broker delivers the next published
\* analysis to the listener, which caches it under the user of its topic.
\* json.dumps and json.loads give back the same numbers and strings.
AnalysisDelivered ==
    /\ n_cached - text_cached < Len(analyses)
    /\ ListenerOnMessage(analyses[n_cached - text_cached + 1].topic_user, "analysis",
                         analyses[n_cached - text_cached + 1].payload)
    /\ UNCHANGED <<seg_vars, whisper_vars, loop_vars, rate_vars, proc_vars, ext_vars>>

\* The broker delivers the next speech/text message of whisper_worker to
\* speech_rate_worker (speech_rate_worker.py 116-159).
TextDelivered ==
    /\ Len(rate_in) < Len(texts)
    /\ on_message_text(texts[Len(rate_in) + 1])
    /\ rate_call' = NoRateCall
    /\ UNCHANGED <<seg_vars, whisper_vars, cache_vars, loop_vars, proc_vars, ext_vars>>

\* The broker delivers the next speech/text message of whisper_worker to
\* analysis_listener (analysis_listener.py 44-77); the user is the one of the
\* topic, which whisper_worker builds from the event's user.
TextCached ==
    /\ text_cached < Len(texts)
    /\ ListenerOnMessage(texts[text_cached + 1].user_id, "text", texts[text_cached + 1])
    /\ text_cached' = text_cached + 1
    /\ UNCHANGED <<seg_delivered, state_vars, ws_log>>
    /\ UNCHANGED <<seg_vars, whisper_vars, loop_vars, rate_vars, proc_vars>>

(***************************************************************************)
(* Malformed messages                                                      *)
(*                                                                         *)
(* bad_json: a payload json.loads rejects; short_topic: a topic with too   *)
(* few levels; not_object: valid JSON that is not an object, such as [1];  *)
(* bad_number: an object whose rms, timestamp or start_ts is not a number. *)
(***************************************************************************)
MalformedKinds == {"bad_json", "short_topic", "not_object", "bad_number"}
MaxMalformed == 2

\* What json.loads gives for the payload [1].
NonObject == <<1>>

\* speech_worker.py 54-73: whether on_message raises. The try of 55-62 covers
\* the decoding only; data.get (72) and float (72-73) are outside it.
RawRaises(kind) == kind \in {"not_object", "bad_number"}

\* speech_worker.py 54-73: on_message returns at 62 or 68, or raises at 72 or
\* 73, before it reaches the sessions.
RawMalformed ==
    /\ n_dropped < MaxMalformed
    /\ \E kind \in MalformedKinds :
          crashed' = IF RawRaises(kind) THEN crashed \cup {"speech_worker"} ELSE crashed
    /\ n_dropped' = n_dropped + 1
    /\ UNCHANGED <<seg_vars, whisper_vars, cache_vars, loop_vars, rate_vars, ext_vars>>

\* whisper_worker.py 217-264: the whole handler is inside one try; a
\* speech/segment message fails at 222-224 or 236-241, before
\* transcribe_segment.
SegmentMalformed ==
    /\ n_dropped < MaxMalformed
    /\ ~stt.active
    /\ n_dropped' = n_dropped + 1
    /\ UNCHANGED <<seg_vars, whisper_vars, cache_vars, loop_vars, rate_vars, crashed, ext_vars>>

\* The malformed messages of the listener; it reads no number.
ListenerKinds == MalformedKinds \ {"bad_number"}

\* analysis_listener.py 44-77: the handler is inside one try; update_analysis
\* (60) and update_text (66) run before data.get raises at 63 or 67.
ListenerOnMalformed(user_id, subtopic, kind) ==
    /\ lock = Free
    /\ latest_analysis' = IF kind = "not_object" /\ subtopic = "analysis"
                          THEN dict_set(latest_analysis, user_id, NonObject)
                          ELSE latest_analysis
    /\ latest_text' = IF kind = "not_object" /\ subtopic = "text"
                      THEN dict_set(latest_text, user_id, NonObject)
                      ELSE latest_text
    /\ UNCHANGED <<lock, threads, cache_log, n_cached>>

ListenerMalformed ==
    /\ n_dropped < MaxMalformed
    /\ \E u \in Users, subtopic \in {"analysis", "text"}, kind \in ListenerKinds :
          ListenerOnMalformed(u, subtopic, kind)
    /\ n_dropped' = n_dropped + 1
    /\ UNCHANGED <<seg_vars, whisper_vars, loop_vars, rate_vars, crashed, ext_vars>>

(***************************************************************************)
(* audio_state_worker.py: the hold-time variant                            *)
(***************************************************************************)
\* audio_state_worker.py 10-11. The module has an RMS_THRESHOLD of its own.
AudioState_RMS_THRESHOLD == 50
HOLD_TIME == 5

\* The audio/raw messages the worker handles: at most MaxStateSamples, stamped
\* by audio_stream.py with time.time() in the order it publishes them, so that
\* timestamps never decrease from one message to the next, whatever the user.
MaxStateSamples == 4
StateDeltas == {0, 5, 6}
StateRmsValues == {10, 50}

\* StateAsked with a slip: >= for >.
StateAsked_AtHoldTime(last, rms, ts) ==
    IF rms >= AudioState_RMS_THRESHOLD THEN "speaking"
    ELSE IF ts - last >= HOLD_TIME THEN "silent"
    ELSE ""

\* audio_state_worker.py 54-60: the state on_message passes to publish_state,
\* or "" when it does not call it.
StateAsked(last, rms, ts) ==
    IF rms >= AudioState_RMS_THRESHOLD THEN "speaking"
    ELSE IF ts - last > HOLD_TIME THEN "silent"
    ELSE ""

\* audio_state_worker.py 54-55: last_speech_time after a sample.
LastSpeechAfter(last, rms, ts) ==
    IF rms >= AudioState_RMS_THRESHOLD THEN ts ELSE last

\* audio_state_worker.py 18-23: current_state after publish_state(user, state).
CurrentStateAfter(cur, state) == IF state = "" THEN cur ELSE state

\* audio_state_worker.py 18-30: the messages publish_state(user, state)
\* publishes, none when the state is the current one.
StatesPublished(cur, user_id, state) ==
    IF state = "" \/ state = cur THEN <<>>
    ELSE <<[user_id |-> user_id, state |-> state]>>

LastStateTs == IF state_in = <<>> THEN 0 ELSE state_in[Len(state_in)].ts

\* audio_state_worker.py 40-60: on_message for a well-formed audio/raw message.
on_message_state(user_id, rms, ts) ==
    /\ last_speech_time' = LastSpeechAfter(last_speech_time, rms, ts)
    /\ current_state' =
         CurrentStateAfter(current_state, StateAsked(last_speech_time, rms, ts))
    /\ states' = states \o StatesPublished(current_state, user_id,
                                           StateAsked(last_speech_time, rms, ts))
    /\ state_in' = Append(state_in,
                     [user_id |-> user_id, rms |-> rms, ts |-> ts,
                      published |-> Len(StatesPublished(current_state, user_id,
                                          StateAsked(last_speech_time, rms, ts)))])

StateSample ==
    /\ Len(state_in) < MaxStateSamples
    /\ \E u \in Users, d \in StateDeltas, r \in StateRmsValues :
          on_message_state(u, r, LastStateTs + d)
    /\ UNCHANGED <<pipe_vars, ws_log>>
    /\ UNCHANGED <<seg_vars, whisper_vars, cache_vars, loop_vars, rate_vars, proc_vars>>

(***************************************************************************)
(* routers/audio_stream.py and mqtt_client.py: the PCM chunks of a page    *)
(***************************************************************************)
\* The chunks a page sends, as sequences of byte values: printable bytes,
\* an odd number of non-printable ones, a quote and a backslash, and none.
MaxWsChunks == 3
WsChunks == { <<65, 66>>, <<0, 128, 255>>, <<39, 92>>, <<>> }

\* A hexadecimal digit of Python's repr, as its ASCII code.
HexDigit(n) == IF n < 10 THEN 48 + n ELSE 87 + n

\* repr of bytes: the quote is ' unless the bytes hold a ' and no ".
ReprQuote(pcm_bytes) ==
    IF (\E i \in DOMAIN pcm_bytes : pcm_bytes[i] = 39)
       /\ ~(\E i \in DOMAIN pcm_bytes : pcm_bytes[i] = 34)
    THEN 34 ELSE 39

\* repr of bytes: the characters that stand for one byte.
ReprByte(b, quote) ==
    IF b = 92 THEN <<92, 92>>
    ELSE IF b = quote THEN <<92, b>>
    ELSE IF b = 9 THEN <<92, 116>>
    ELSE IF b = 10 THEN <<92, 110>>
    ELSE IF b = 13 THEN <<92, 114>>
    ELSE IF b >= 32 /\ b < 127 THEN <<b>>
    ELSE <<92, 120, HexDigit(b \div 16), HexDigit(b % 16)>>

RECURSIVE ReprBody(_, _)
ReprBody(pcm_bytes, quote) ==
    IF pcm_bytes = <<>> THEN <<>>
    ELSE ReprByte(pcm_bytes[1], quote) \o ReprBody(Tail(pcm_bytes), quote)

\* str(payload) of a bytes object: b'...', encoded by paho as UTF-8, which
\* leaves these ASCII characters as they are.
StrOfBytes(pcm_bytes) ==
    <<98, ReprQuote(pcm_bytes)>> \o ReprBody(pcm_bytes, ReprQuote(pcm_bytes))
    \o <<ReprQuote(pcm_bytes)>>

\* mqtt_client.py 63-68: the payload publish() hands to paho for a payload
\* that is not a dict.
publish(payload) == StrOfBytes(payload)

\* The bytes of a payload as the buffer keeps them, with their position in
\* the user's stream.
Stamp(from, payload) == [i \in 1..Len(payload) |-> [id |-> from + i, v |-> payload[i]]]
Values(buf) == [i \in 1..Len(buf) |-> buf[i].v]

\* audio_stream.py 31-55: one iteration of the loop; the chunk received is
\* published on the user's audio/pcm topic. The meta message of audio/raw
\* (40-50) is a str and goes out as it is.
AudioStreamChunk ==
    /\ Len(ws_log) < MaxWsChunks
    /\ \E pcm_bytes \in WsChunks :
          ws_log' = Append(ws_log, [received |-> pcm_bytes,
                                    num_samples |-> Len(pcm_bytes) \div 2,
                                    payload |-> publish(pcm_bytes),
                                    delivered |-> FALSE, after |-> <<>>])
    /\ UNCHANGED <<pipe_vars, state_vars>>
    /\ UNCHANGED <<seg_vars, whisper_vars, cache_vars, loop_vars, rate_vars, proc_vars>>

\* The first chunk published and not yet delivered, 0 when there is none.
NextUndelivered ==
    IF \E i \in 1..Len(ws_log) : ~ws_log[i].delivered
    THEN CHOOSE i \in 1..Len(ws_log) :
            ~ws_log[i].delivered /\ \A j \in 1..(i - 1) : ws_log[j].delivered
    ELSE 0

\* whisper_worker.py 228-230: the broker delivers the next audio/pcm message
\* of audio_stream.
PcmDelivered ==
    /\ NextUndelivered # 0
    /\ OnPcmBytes(StreamUser,
                  Stamp(stream_pos[StreamUser], ws_log[NextUndelivered].payload))
    /\ ws_log' = [ws_log EXCEPT
                    ![NextUndelivered].delivered = TRUE,
                    ![NextUndelivered].after = Values(user_pcm_buffers'[StreamUser])]
    /\ UNCHANGED <<pipe_vars, state_vars>>
    /\ UNCHANGED <<seg_vars, cache_vars, loop_vars, rate_vars, proc_vars>>

(***************************************************************************)
(* The specifications                                                      *)
(***************************************************************************)
Init ==
    /\ sessions = <<>>
    /\ segments = <<>>
    /\ samples = [u \in Users |-> <<>>]
    /\ user_pcm_buffers = [u \in Users |-> <<>>]
    /\ stream_pos = [u \in Users |-> 0]
    /\ stt = NoCall
    /\ texts = <<>>
    /\ triggers = <<>>
    /\ api_result = NoResult
    /\ msg_count = 0
    /\ latest_analysis = <<>>
    /\ latest_text = <<>>
    /\ lock = Free
    /\ threads = [t \in Threads |-> Idle]
    /\ cache_log = <<>>
    /\ n_cached = 0
    /\ loop = [pc |-> "analysis", user_id |-> LoopUser, connected |-> TRUE,
               last_analysis_ts |-> 0, last_text_ts |-> 0]
    /\ sent = <<>>
    /\ rate_in = <<>>
    /\ analyses = <<>>
    /\ rate_call = NoRateCall
    /\ crashed = {}
    /\ n_dropped = 0
    /\ seg_delivered = 0
    /\ text_cached = 0
    /\ last_speech_time = 0
    /\ current_state = "silent"
    /\ states = <<>>
    /\ state_in = <<>>
    /\ ws_log = <<>>

\* speech_worker alone
NextSeg == RawSample
SpecSeg == Init /\ [][NextSeg]_vars

\* The buffer's functions called in any order
NextWindow ==
    \/ PcmChunk(MaxWindowOps) \/ EmptyChunk \/ SegmentEvent(MaxWindowOps) \/ SttReturn
    \/ ApiTrim \/ ApiGetRecent
SpecWindow == Init /\ [][NextWindow]_vars

\* whisper_worker as it runs
NextWhisper ==
    PcmChunk(MaxMessages) \/ EmptyChunk \/ SegmentEvent(MaxMessages) \/ SttReturn
SpecWhisper == Init /\ [][NextWhisper]_vars

\* Threads calling the cache
NextCache == Call \/ Acquire \/ Access \/ Release
SpecCache == Init /\ [][NextCache]_vars

\* The same, with every thread scheduled fairly: a thread inside `with _lock:`
\* goes on running, and a thread waiting for the lock gets it if the lock
\* keeps becoming free.
SpecCacheFair ==
    /\ SpecCache
    /\ \A t \in Threads :
          /\ SF_vars(CacheAcquire(t))
          /\ WF_vars(CacheAccess(t))
          /\ WF_vars(CacheRelease(t))

\* The listener writing the cache and one coach_events loop reading it
NextLoop == Cached \/ LoopAnalysis \/ LoopText \/ Disconnect
SpecLoop == Init /\ [][NextLoop]_vars

\* The same, with the event loop resuming the coroutine whenever its sleep
\* has ended (asyncio runs every ready task).
SpecLoopFair == SpecLoop /\ WF_vars(LoopAnalysis) /\ WF_vars(LoopText)

\* speech_rate_worker alone, and its two rate functions called directly
NextRate == RateText(MaxTexts) \/ CallAnalyzeText \/ CallCalcCps
SpecRate == Init /\ [][NextRate]_vars

\* speech_rate_worker in front of the listener and one coach_events loop
NextCoach ==
    RateText(MaxPipeTexts) \/ AnalysisDelivered \/ LoopAnalysis \/ LoopText \/ Disconnect
SpecCoach == Init /\ [][NextCoach]_vars

\* Malformed messages delivered to the three subscribers, between the
\* listener's well-formed ones
NextMalformed == RawMalformed \/ SegmentMalformed \/ ListenerMalformed \/ Cached
SpecMalformed == Init /\ [][NextMalformed]_vars

\* The stages in a row: whisper_worker, speech_rate_worker, analysis_listener.
MaxPipeMsgs == 3
NextPipe ==
    \/ PcmChunk(MaxPipeMsgs) \/ SegmentEvent(MaxPipeMsgs) \/ SttReturn
    \/ TextDelivered \/ TextCached \/ AnalysisDelivered
SpecPipe == Init /\ [][NextPipe]_vars

\* speech_worker and whisper_worker in a row.
MaxChainSamples == 3
MaxChainChunks == 1
NextChain ==
    \/ StreamSample(MaxChainSamples) \/ PcmChunk(MaxChainChunks)
    \/ SegmentDelivered \/ SttReturn
SpecChain == Init /\ [][NextChain]_vars

\* speech_worker alone, with the audio/raw messages of one page.
MaxStreamSamples == 6
NextStream == StreamSample(MaxStreamSamples)
SpecStream == Init /\ [][NextStream]_vars

\* audio_state_worker alone.
NextState == StateSample
SpecState == Init /\ [][NextState]_vars

\* audio_stream and the audio/pcm side of whisper_worker.
NextAudio == AudioStreamChunk \/ PcmDelivered
SpecAudio == Init /\ [][NextAudio]_vars

Next == NextAudio \/ NextState \/ NextChain \/ NextStream \/ NextPipe \/ NextMalformed \/ NextSeg \/ NextWindow \/ NextCache \/ NextLoop \/ NextRate \/ NextCoach
Spec == Init /\ [][Next]_vars

(***************************************************************************)
(* The properties                                                          *)
(***************************************************************************)
LastN(seq, n) == SubSeq(seq, Len(seq) - n + 1, Len(seq))
Range(seq) == {seq[i] : i \in DOMAIN seq}

\* ------------------------------------------------------------------ C1
Above(h, k) == h[k].rms >= RMS_THRESHOLD

\* The first sample of the maximal run of samples >= threshold that ends at j.
RunStart(h, j) ==
    CHOOSE i \in 1..j :
        /\ \A k \in i..j : Above(h, k)
        /\ i = 1 \/ ~Above(h, i - 1)

\* What the first n samples of h call for: one (start_ts, duration) for each
\* maximal run that a sample below the threshold has ended and whose span is
\* at least MIN_SEGMENT_DURATION, in the order the runs end.
RECURSIVE ExpectedSegments(_, _)
ExpectedSegments(h, n) ==
    IF n <= 1 THEN <<>>
    ELSE IF Above(h, n - 1) /\ ~Above(h, n)
         THEN LET i == RunStart(h, n - 1)
                  span == h[n - 1].ts - h[i].ts
              IN  IF span >= MIN_SEGMENT_DURATION
                  THEN Append(ExpectedSegments(h, n - 1),
                              [start_ts |-> h[i].ts,
                               duration |-> Min(span, MAX_SEGMENT_DURATION)])
                  ELSE ExpectedSegments(h, n - 1)
         ELSE ExpectedSegments(h, n - 1)

PublishedOf(u) ==
    LET mine == SelectSeq(segments, LAMBDA m : m.user_id = u)
    IN  [i \in DOMAIN mine |-> [start_ts |-> mine[i].start_ts, duration |-> mine[i].duration]]

\* C1: for the samples of one user, timestamps never decreasing, a segment is
\* published if and only if a maximal run of samples with rms >= RMS_THRESHOLD
\* has ended with a span >= MIN_SEGMENT_DURATION: exactly one segment per such
\* run, its duration min(span, MAX_SEGMENT_DURATION) and its start_ts the
\* timestamp of the run's first sample.
C1_SegmentPerRun ==
    \A u \in Users : PublishedOf(u) = ExpectedSegments(samples[u], Len(samples[u]))

\* ------------------------------------------------------------------ C2
\* C2: a step publishes at most one segment, and only while it moves that
\* user's session from speaking to silent; segment_start is set (to the
\* sample's timestamp) only by the step from silent to speaking, is kept
\* while the session stays speaking, and is cleared when the segment closes.
C2_EmitOnlyOnClose ==
    [][ /\ segments' # segments =>
            /\ Len(segments') = Len(segments) + 1
            /\ SubSeq(segments', 1, Len(segments)) = segments
            /\ \E u \in Users :
                   /\ u = segments'[Len(segments')].user_id
                   /\ SessionOf(u).state = "speaking"
                   /\ SessionOf(u)'.state = "silent"
        /\ \A u \in Users :
            /\ (SessionOf(u).state = "speaking") = (SessionOf(u).segment_start # None)
            /\ SessionOf(u).state = "speaking" /\ SessionOf(u)'.state = "speaking"
                  => SessionOf(u)'.segment_start = SessionOf(u).segment_start
            /\ SessionOf(u).state = "silent" /\ SessionOf(u)'.state = "speaking"
                  => SessionOf(u)'.segment_start = LastTs(u)'
            /\ SessionOf(u)'.state = "silent" => SessionOf(u)'.segment_start = None
      ]_vars

\* A segment of a user has been published and the user's next segment is open.
C2_Witness ==
    \E u \in Users :
        /\ SessionOf(u).state = "speaking"
        /\ \E i \in DOMAIN segments : segments[i].user_id = u

\* ------------------------------------------------------------------ C3
\* C3, as claimed: the timestamps of the messages one loop forwards never
\* repeat or decrease.
C3_ForwardedIncrease ==
    \A i, j \in DOMAIN sent : i < j => sent[j].ts > sent[i].ts

\* C3, amended: among the messages of one type (speech, transcript) that one
\* loop forwards, the timestamps never repeat or decrease, however often the
\* cache is overwritten between polls.
C3_ForwardedIncreasePerType ==
    \A i, j \in DOMAIN sent :
        i < j /\ sent[i].type = sent[j].type => sent[j].ts > sent[i].ts

\* Two messages of one type have been forwarded, and the cache was written
\* more often than the loop forwarded.
C3_Witness ==
    /\ \E i, j \in DOMAIN sent : i < j /\ sent[i].type = sent[j].type
    /\ n_cached > Len(sent)

\* ------------------------------------------------------------------ C4
\* The value of the most recent update of kind `op` for user u in a log.
MostRecent(log, op, u) ==
    LET writes == {i \in DOMAIN log : log[i].op = op /\ log[i].user_id = u}
    IN  IF writes = {} THEN NoDict
        ELSE log[CHOOSE i \in writes : \A k \in writes : k <= i].arg

UpdateOf(op) == IF op = "get_latest_analysis" THEN "update_analysis" ELSE "update_text"

\* C4: in every interleaving of the four operations, the operations take
\* effect one at a time, and a get_latest_X(u) returns None when no
\* update_X(u, .) took effect before it and otherwise the value of the most
\* recent update_X(u, .).
C4_AtomicRegister ==
    /\ Cardinality({t \in Threads : threads[t].pc \in {"locked", "release"}}) <= 1
    /\ \A t \in Threads :
         threads[t].pc \in {"release", "returned"}
         /\ threads[t].op \in {"get_latest_analysis", "get_latest_text"}
         => threads[t].ret =
              MostRecent(SubSeq(cache_log, 1, threads[t].at),
                         UpdateOf(threads[t].op), threads[t].user_id)

\* A get has returned a value written by the second of two updates of its
\* user and kind.
C4_Witness ==
    \E t \in Threads :
        /\ threads[t].pc = "returned"
        /\ threads[t].op = "get_latest_analysis"
        /\ threads[t].ret # NoDict
        /\ Cardinality({i \in 1..threads[t].at :
                           /\ cache_log[i].op = "update_analysis"
                           /\ cache_log[i].user_id = threads[t].user_id}) = 2
        /\ cache_log[1].arg # threads[t].ret

\* ------------------------------------------------------------------ C5
Entry(map, u) ==
    IF u \in DOMAIN map THEN [present |-> TRUE, value |-> map[u]]
    ELSE [present |-> FALSE, value |-> NoDict]

\* C5: update_analysis(u, r) sets the analysis entry of u to r and changes
\* nothing else, update_text(u, t) sets the text entry of u to t and changes
\* nothing else, and no other step changes an entry.
C5_CacheFrame ==
    [][ \A u \in Users :
          /\ Entry(latest_analysis, u)' # Entry(latest_analysis, u) =>
               \E t \in Threads :
                  /\ threads[t].pc = "locked" /\ threads'[t].pc = "release"
                  /\ threads[t].op = "update_analysis" /\ threads[t].user_id = u
                  /\ Entry(latest_analysis, u)' = [present |-> TRUE, value |-> threads[t].arg]
          /\ Entry(latest_text, u)' # Entry(latest_text, u) =>
               \E t \in Threads :
                  /\ threads[t].pc = "locked" /\ threads'[t].pc = "release"
                  /\ threads[t].op = "update_text" /\ threads[t].user_id = u
                  /\ Entry(latest_text, u)' = [present |-> TRUE, value |-> threads[t].arg]
      ]_vars

\* An update_text has taken effect while analysis entries were present.
C5_Witness ==
    /\ DOMAIN latest_analysis # {}
    /\ DOMAIN latest_text # {}
    /\ cache_log # <<>>
    /\ cache_log[Len(cache_log)].op = "update_text"

\* ------------------------------------------------------------------ C6
\* C6: after any sequence of append_pcm, trim_buffer, get_recent_pcm and
\* transcribe_segment, every user's buffer has at most MAX_BYTES bytes.
C6_BufferBounded ==
    \A u \in Users : Len(user_pcm_buffers[u]) <= MAX_BYTES

\* A user's buffer is full and has dropped bytes of the user's stream.
C6_Witness ==
    \E u \in Users :
        /\ Len(user_pcm_buffers[u]) = MAX_BYTES
        /\ stream_pos[u] > MAX_BYTES + SAMPLE_WIDTH

\* ------------------------------------------------------------------ C7
\* The bytes of max_duration_sec (tenths of a second) of audio.
DurationBytes(max_duration_sec) ==
    PyInt(SAMPLE_RATE * max_duration_sec, 10) * SAMPLE_WIDTH

\* C7: get_recent_pcm leaves every user's buffer as it was and returns, in
\* order, the samples of the most recent min(buffer length, max_duration
\* seconds) of the user's buffer, for every buffer and every max_duration.
C7_SnapshotIsRecent ==
    api_result.called =>
        /\ api_result.after = api_result.before
        /\ LET buf == api_result.before[api_result.user_id]
           IN  api_result.audio =
                 ToAudio(LastN(buf, Min(Len(buf), DurationBytes(api_result.max_duration_sec))))

\* ------------------------------------------------------------------ C8
\* C8: no text event with an empty or whitespace-only text is published.
C8_NoEmptyText ==
    \A i \in DOMAIN texts : Strip(texts[i].text) # <<>>

\* ------------------------------------------------------------------ C9
\* C9: when the snapshot taken for a segment event of user u is below
\* MIN_AUDIO_RMS (sum(x^2) / (n * 32768^2) < 1 / 10000, or no sample at
\* all), the handler does not call model.transcribe and publishes
\* no text event, and u's buffer is cut to its last 0.5 s (the other buffers
\* are left alone).
C9_NoiseGate ==
    [][ Len(triggers') = Len(triggers) + 1 =>
          \A u \in Users :
            LET buf == user_pcm_buffers[u]
                audio == ToAudio(LastN(buf, Min(Len(buf), DurationBytes(100))))
            IN  /\ u = triggers'[Len(triggers')].user_id
                /\ Len(audio) = 0 \/ 625 * SumSq256(audio) < 1024 * Len(audio)
                => /\ ~stt'.active
                   /\ ~triggers'[Len(triggers')].called
                   /\ texts' = texts
                   /\ user_pcm_buffers' =
                        [user_pcm_buffers EXCEPT
                           ![u] = LastN(buf, Min(Len(buf), DurationBytes(5)))]
      ]_vars

\* The last segment event found more than ten seconds of audio, was gated as
\* noise, and the buffer was cut to half a second.
C9_Witness ==
    \E i \in DOMAIN triggers :
        /\ ~triggers[i].called
        /\ triggers[i].ids # <<>>
        /\ Len(user_pcm_buffers[triggers[i].user_id]) = DurationBytes(5)
        /\ stream_pos[triggers[i].user_id] > 10 * BytesPerSec
        /\ i = Len(triggers)

\* ------------------------------------------------------------------ C10
Transcribed(i) == triggers[i].called /\ triggers[i].consumed

C11_OtherUserNotBlocked ==
    stt.active /\ msg_count < MaxMessages =>
        \E u \in Users \ {stt.user_id} :
            /\ ENABLED OnPcm(u, 3, TRUE)
            /\ \E seg \in SegMetas : ENABLED OnSegment(u, seg)

\* ------------------------------------------------------------------ C12
\* C12: once the consumer has disconnected, the loop eventually terminates,
\* whether or not a new result is written to the cache afterwards.
C12_LoopTerminates == (~loop.connected) ~> (loop.pc = "closed")

\* ------------------------------------------------------------------ C13
\* C13: a speech message forwarded for a result of the Rate Metrics Engine
\* carries the result's computed values: label is the computed speed level,
\* chars_per_sec, duration and text are the result's, and wpm is not null.
C13_SpeechCarriesResult ==
    [][ \A i \in DOMAIN analyses :
          /\ Len(sent') = Len(sent) + 1
          /\ sent'[Len(sent')].type = "speech"
          /\ dict_get(latest_analysis, loop.user_id) = analyses[i].payload
          => /\ sent'[Len(sent')].label = analyses[i].payload.speed_level
             /\ sent'[Len(sent')].chars_per_sec = analyses[i].payload.chars_per_sec
             /\ sent'[Len(sent')].duration = analyses[i].payload.duration
             /\ sent'[Len(sent')].text = analyses[i].payload.text
             /\ sent'[Len(sent')].wpm # None ]_vars

\* ------------------------------------------------------------------ C14
\* C14: for every text and every duration, zero and negative included, the
\* division of analyze_text and of calc_cps does not raise, and the rates
\* they return (chars_per_sec, tokens_per_sec, cps) are >= 0.
C14_RatesNonNegative ==
    /\ rate_call.fn = "analyze_text" =>
          /\ rate_call.result # ZeroDivisionError
          /\ rate_call.result # NoAnalysis =>
                /\ rate_call.result.chars_per_sec >= 0
                /\ rate_call.result.tokens_per_sec >= 0
    /\ rate_call.fn = "calc_cps" =>
          /\ ~rate_call.result.raises
          /\ rate_call.result.cps >= 0

\* ------------------------------------------------------------------ C15
\* C15: the duration the engine divides by and reports is positive and at
\* most a ceiling, 30 s being the ceiling the specification gives as an
\* example: in every published analysis and in every result of analyze_text.
C15_DurationClamped ==
    /\ \A i \in DOMAIN analyses :
          analyses[i].payload.duration > 0 /\ analyses[i].payload.duration <= 300
    /\ rate_call.fn = "analyze_text" /\ rate_call.result # NoAnalysis =>
          rate_call.result.duration > 0 /\ rate_call.result.duration <= 300

\* ------------------------------------------------------------------ C16
\* C16: a malformed message delivered to speech_worker, whisper_worker or
\* analysis_listener is dropped: the step that handles it publishes nothing,
\* leaves the sessions, the PCM buffers and the cache as they are, and lets
\* no exception out of the handler.
C16_MalformedDropped ==
    [][ n_dropped' # n_dropped =>
          /\ UNCHANGED <<sessions, segments, user_pcm_buffers, texts, analyses>>
          /\ UNCHANGED <<latest_analysis, latest_text>>
          /\ crashed' = {} ]_vars

\* ------------------------------------------------------------------ C17
NonBlank(text) == \E i \in DOMAIN text : text[i] # " "

\* C17: the analysis events published are, in order, one for each text event
\* handled whose text has a character that is not whitespace, on the topic of
\* the event's user_id and with its user_id, start_ts and end_ts; a text
\* event whose text is empty or whitespace only adds none.
C17_OneAnalysisPerText ==
    LET spoken == SelectSeq(rate_in, LAMBDA data : NonBlank(data.text))
    IN  /\ Len(analyses) = Len(spoken)
        /\ \A i \in DOMAIN analyses :
              /\ analyses[i].topic_user = spoken[i].user_id
              /\ analyses[i].payload.user_id = spoken[i].user_id
              /\ analyses[i].payload.start_ts = spoken[i].start_ts
              /\ analyses[i].payload.end_ts = spoken[i].end_ts

\* A whitespace-only text event and a spoken one of another user have been
\* handled, and one analysis was published.
C17_Witness ==
    /\ Len(rate_in) = 2 /\ Len(analyses) = 1
    /\ rate_in[1].text = <<" ">>
    /\ NonBlank(rate_in[2].text)
    /\ rate_in[1].user_id # rate_in[2].user_id

\* ------------------------------------------------------------------ C18
\* C18: under fair scheduling, every cache call that has started returns:
\* a thread that has called one of the four functions eventually leaves it.
C18_EveryCallReturns ==
    \A t \in Threads :
        (threads[t].pc \in {"acquire", "locked", "release"}) ~> (threads[t].pc = "returned")

\* A writer waits for the lock while a reader holds it.
C18_Witness ==
    \E t \in Threads :
        /\ threads[t].pc = "acquire"
        /\ threads[t].op \in {"update_analysis", "update_text"}
        /\ lock \in Threads \ {t}
        /\ threads[lock].op \in {"get_latest_analysis", "get_latest_text"}

\* ------------------------------------------------------------------ C19
\* C19: append_pcm(u, b) with b not empty sets u's buffer to the last
\* min(MAX_BYTES, n) bytes of old ++ b', b' being b cut to an even number of
\* bytes and n the length of old ++ b'; the other users' buffers are
\* unchanged.
C19_AppendKeepsNewest ==
    [][ api_result'.fn = "append_pcm" /\ api_result'.pcm_bytes # <<>> =>
          \A u \in Users :
              IF u = api_result'.user_id
              THEN LET b == api_result'.pcm_bytes
                       joined == user_pcm_buffers[u] \o SubSeq(b, 1, 2 * (Len(b) \div 2))
                   IN  user_pcm_buffers'[u] =
                           LastN(joined, Min(MAX_BYTES, Len(joined)))
              ELSE user_pcm_buffers'[u] = user_pcm_buffers[u] ]_vars

\* An append has overflowed a buffer that keeps bytes it held before, and
\* an append of an odd number of bytes has been cut to whole samples.
C19_Witness ==
    /\ api_result.fn = "append_pcm"
    /\ LET u == api_result.user_id
       IN  /\ Len(user_pcm_buffers[u]) = MAX_BYTES
           /\ user_pcm_buffers[u][1].id > 1
           /\ user_pcm_buffers[u][1].id < api_result.pcm_bytes[1].id
    /\ \E v \in Users : stream_pos[v] = 3 /\ Len(user_pcm_buffers[v]) = 2

\* ------------------------------------------------------------------ C20
\* C20: trim_buffer(u, keep_sec) sets u's buffer to the suffix of its content
\* of length min(length, bytes of keep_sec seconds), empties it when
\* keep_sec <= 0, never lengthens it, is idempotent (a second application
\* with the same keep_sec changes nothing) and leaves other users' buffers.
C20_TrimKeepsSuffix ==
    [][ api_result'.fn = "trim_buffer" =>
          \A u \in Users :
              IF u = api_result'.user_id
              THEN LET keep_sec == api_result'.keep_sec
                       old == user_pcm_buffers[u]
                       new == user_pcm_buffers'[u]
                   IN  /\ new = LastN(old, Min(Len(old), Max(0, DurationBytes(keep_sec))))
                       /\ keep_sec <= 0 => new = <<>>
                       /\ Len(new) <= Len(old)
                       /\ trim_buffer(new, keep_sec) = new
              ELSE user_pcm_buffers'[u] = user_pcm_buffers[u] ]_vars

\* A buffer of more than a second has been cut to its last second.
C20_Witness ==
    /\ api_result.fn = "trim_buffer"
    /\ api_result.keep_sec = 10
    /\ LET u == api_result.user_id
       IN  /\ Len(user_pcm_buffers[u]) = DurationBytes(10)
           /\ user_pcm_buffers[u][Len(user_pcm_buffers[u])].id = stream_pos[u]
           /\ stream_pos[u] > DurationBytes(10)

\* ------------------------------------------------------------------ C21
\* C21: every run of transcribe_segment for a user whose buffer is not empty
\* ends with that buffer cut to at most the keep duration (1.0 s, the longer
\* of the two the handler uses), whether the run ends at the noise gate or
\* after model.transcribe returned or raised.
C21_AlwaysConsumed ==
    [][ \A u \in Users :
          /\ user_pcm_buffers[u] # <<>>
          /\ \/ stt.active /\ stt.user_id = u /\ ~stt'.active
             \/ /\ Len(triggers') = Len(triggers) + 1
                /\ triggers'[Len(triggers')].user_id = u
                /\ ~stt'.active
          => Len(user_pcm_buffers'[u]) <= DurationBytes(10) ]_vars

(***************************************************************************)
(* The stages in a row                                                     *)
(***************************************************************************)
RECURSIVE SelectUser(_, _)
SelectUser(seq, u) ==
    IF seq = <<>> THEN <<>>
    ELSE IF seq[1].user_id = u THEN <<seq[1]>> \o SelectUser(Tail(seq), u)
    ELSE SelectUser(Tail(seq), u)

SegOf(e) == [start_ts |-> e.start_ts, end_ts |-> e.end_ts, duration |-> e.duration]
SegsOf(seq) == [i \in 1..Len(seq) |-> SegOf(seq[i])]

\* The runs of transcribe_segment that reached the publishing of a text.
RECURSIVE Completed(_)
Completed(trs) ==
    IF trs = <<>> THEN <<>>
    ELSE IF trs[1].called /\ trs[1].consumed
         THEN <<[user_id |-> trs[1].user_id] @@ trs[1].seg>> \o Completed(Tail(trs))
         ELSE Completed(Tail(trs))

\* The text events that lead to an analysis event.
RECURSIVE Analysed(_)
Analysed(seq) ==
    IF seq = <<>> THEN <<>>
    ELSE IF Strip(seq[1].text) # <<>> THEN <<seq[1]>> \o Analysed(Tail(seq))
    ELSE Analysed(Tail(seq))

EndTss(seq) == [i \in 1..Len(seq) |-> seq[i].end_ts]
PayloadsOf(seq) == [i \in 1..Len(seq) |-> seq[i].payload]
LastOrNone(seq) == IF seq = <<>> THEN NoDict ELSE seq[Len(seq)]

\* C22: for each user the text events are published in the order of the
\* segment events that triggered them, the analysis events in the order of the
\* text events, and each cache entry of the user holds the last text or
\* analysis delivered, so that the end_ts written to it follow the order of
\* the segment events.
C22_PipelineOrder ==
    \A u \in Users :
        /\ SegsOf(SelectUser(texts, u)) = SegsOf(SelectUser(Completed(triggers), u))
        /\ EndTss(SelectUser(PayloadsOf(analyses), u))
             = EndTss(Analysed(SelectUser(rate_in, u)))
        /\ rate_in = SubSeq(texts, 1, Len(rate_in))
        /\ dict_get(latest_text, u)
             = LastOrNone(SelectUser(SubSeq(texts, 1, text_cached), u))
        /\ dict_get(latest_analysis, u)
             = LastOrNone(SelectUser(PayloadsOf(SubSeq(analyses, 1, n_cached - text_cached)), u))

C22_Witness ==
    /\ Len(SelectUser(PayloadsOf(analyses), "u1")) = 2
    /\ EndTss(SelectUser(texts, "u1")) = <<12, 120>>
    /\ n_cached - text_cached = 2
    /\ text_cached = 2
    /\ dict_get(latest_analysis, "u1").end_ts = 120
    /\ dict_get(latest_text, "u1").end_ts = 120

\* C23: every text event carries the start_ts, end_ts and duration of the
\* segment event that triggered it, a segment event triggers at most one text
\* event, and for the segment events of speech_worker the duration of the text
\* event is end_ts - start_ts.
C23_TextCarriesSegment ==
    /\ Len(texts) = Len(Completed(triggers))
    /\ \A i \in 1..Len(texts) :
          /\ SegOf(texts[i]) = SegOf(Completed(triggers)[i])
          /\ texts[i].user_id = Completed(triggers)[i].user_id
          /\ texts[i].duration = texts[i].end_ts - texts[i].start_ts
    /\ Len(triggers) = seg_delivered
    /\ \A i \in 1..Len(triggers) :
          /\ triggers[i].seg = SegOf(segments[i])
          /\ triggers[i].user_id = segments[i].user_id

C23_Witness ==
    /\ Len(texts) = 1
    /\ Len(segments) = 1
    /\ texts[1].start_ts = segments[1].start_ts
    /\ texts[1].start_ts > 0
    /\ texts[1].duration = MAX_SEGMENT_DURATION
    /\ texts[1].text # <<>>

\* Whether the loop has already sent a message for the result d.
Forwarded(type, d) ==
    \E i \in 1..Len(sent) :
        sent[i].type = type /\ sent[i].text = d.text /\ sent[i].ts = TsOf(d)

\* C24: at a poll of a connected loop, an analysis (or a text) that the cache
\* holds for the loop's user and that the loop has not forwarded yet is
\* forwarded at that poll, whatever its end_ts or timestamp: missing, zero, or
\* not greater than the last forwarded one.
C24_NewResultForwarded ==
    [][ /\ loop.connected /\ loop.pc = "analysis" /\ loop'.pc # "analysis"
           /\ HasResult(dict_get(latest_analysis, loop.user_id))
           /\ ~Forwarded("speech", dict_get(latest_analysis, loop.user_id))
           => sent' = Append(sent, Message("speech", dict_get(latest_analysis, loop.user_id)))
        /\ loop.connected /\ loop.pc = "text" /\ loop'.pc # "text"
           /\ HasResult(dict_get(latest_text, loop.user_id))
           /\ ~Forwarded("transcript", dict_get(latest_text, loop.user_id))
           => sent' = Append(sent, Message("transcript", dict_get(latest_text, loop.user_id)))
      ]_vars

(***************************************************************************)
(* audio_state_worker                                                      *)
(***************************************************************************)
RECURSIVE NumPublished(_)
NumPublished(h) ==
    IF h = <<>> THEN 0 ELSE h[Len(h)].published + NumPublished(SubSeq(h, 1, Len(h) - 1))

\* The state event that the k-th sample caused.
EventOf(k) == states[NumPublished(SubSeq(state_in, 1, k))]

StateAbove(k) == state_in[k].rms >= AudioState_RMS_THRESHOLD

\* C25: a speaking event is published only on a sample at or above the
\* threshold; a silent event only on a sample below it whose timestamp is more
\* than HOLD_TIME after every earlier sample at or above the threshold, so a
\* below-threshold sample within HOLD_TIME of such a sample causes no silent
\* event.
C25_HoldTime ==
    \A k \in 1..Len(state_in) :
        state_in[k].published = 1 =>
            /\ EventOf(k).state \in {"speaking", "silent"}
            /\ EventOf(k).state = "speaking" => StateAbove(k)
            /\ EventOf(k).state = "silent" =>
                  /\ ~StateAbove(k)
                  /\ \A j \in 1..(k - 1) :
                        StateAbove(j) => state_in[k].ts > state_in[j].ts + HOLD_TIME

C25_Witness ==
    /\ Len(state_in) >= 3
    /\ StateAbove(1) /\ state_in[1].published = 1
    /\ ~StateAbove(2) /\ state_in[2].ts = state_in[1].ts + HOLD_TIME
    /\ state_in[2].published = 0
    /\ ~StateAbove(3) /\ state_in[3].published = 1
    /\ states[2].state = "silent"

\* The state events the worker publishes when the samples h are all it
\* handles, from the values last and cur of its two globals.
RECURSIVE EventsAlone(_, _, _)
EventsAlone(h, last, cur) ==
    IF h = <<>> THEN <<>>
    ELSE StatesPublished(cur, h[1].user_id, StateAsked(last, h[1].rms, h[1].ts))
         \o EventsAlone(Tail(h), LastSpeechAfter(last, h[1].rms, h[1].ts),
                        CurrentStateAfter(cur, StateAsked(last, h[1].rms, h[1].ts)))

\* C26: the state events published for a user are those that the user's own
\* samples produce when no other user sends any: whether a sample of B causes
\* an event, and which, does not depend on the samples of A.
C26_StatePerUser ==
    \A u \in Users :
        SelectUser(states, u) = EventsAlone(SelectUser(state_in, u), 0, "silent")

StrictlyIncreasing(h) == \A i \in 1..(Len(h) - 1) : h[i].ts < h[i + 1].ts

\* C27: for a user whose sample timestamps increase strictly, every published
\* segment has MIN_SEGMENT_DURATION <= duration <= MAX_SEGMENT_DURATION,
\* end_ts = start_ts + duration and max_rms >= RMS_THRESHOLD, and each segment
\* of the user starts after the end of the user's previous one.
C27_SegmentsWellFormed ==
    \A u \in Users :
        StrictlyIncreasing(samples[u]) =>
            \A i \in 1..Len(SelectUser(segments, u)) :
                /\ MIN_SEGMENT_DURATION <= SelectUser(segments, u)[i].duration
                /\ SelectUser(segments, u)[i].duration <= MAX_SEGMENT_DURATION
                /\ SelectUser(segments, u)[i].end_ts
                     = SelectUser(segments, u)[i].start_ts + SelectUser(segments, u)[i].duration
                /\ SelectUser(segments, u)[i].max_rms >= RMS_THRESHOLD
                /\ i > 1 => SelectUser(segments, u)[i].start_ts > SelectUser(segments, u)[i - 1].end_ts

C27_Witness ==
    /\ StrictlyIncreasing(samples[StreamUser])
    /\ Len(SelectUser(segments, StreamUser)) = 2
    /\ SelectUser(segments, StreamUser)[1].duration = MAX_SEGMENT_DURATION
    /\ SelectUser(segments, StreamUser)[2].start_ts > SelectUser(segments, StreamUser)[1].end_ts

(***************************************************************************)
(* audio_stream                                                            *)
(***************************************************************************)
\* C28: every chunk received on /audio-stream is published on audio/pcm with
\* a payload equal to it byte for byte, and once whisper_worker has handled
\* it the bytes append_pcm added to the buffer are the chunk's bytes, cut to
\* an even number.
C28_PcmByteForByte ==
    \A i \in 1..Len(ws_log) :
        /\ ws_log[i].payload = ws_log[i].received
        /\ ws_log[i].delivered =>
              /\ Len(ws_log[i].after) >= Len(EvenTruncate(ws_log[i].received))
              /\ LastN(ws_log[i].after, Len(EvenTruncate(ws_log[i].received)))
                   = EvenTruncate(ws_log[i].received)

=============================================================================
